---- MODULE Spec2Model ----
(***************************************************************************)
(* Model of the asynchronous task-completion code of the suno-api scripts: *)
(*   - the polling tracker  SunoAPIClient.get_task_status /                *)
(*     SunoAPIClient.wait_for_completion  of generate_trap_polling.py,     *)
(*     generate_drill_chastushka.py and generate_hard_trap.py;             *)
(*   - the callback tracker  WebhookHandler.do_POST, start_webhook_server  *)
(*     and wait_for_callback  of generate_hard_trap.py;                    *)
(*   - the retry loop  run_codegen_review  and  main  of                   *)
(*     codegen_review.py;                                                  *)
(*   - main  of the three generation scripts;                              *)
(*   - install, the module body and  _safe_shutdown_otel  of               *)
(*     otel_shutdown_fix.py, and the atexit functions at interpreter exit. *)
(* Time is counted in seconds elapsed since start_time.                    *)
(***************************************************************************)
EXTENDS Integers, Sequences, FiniteSets, TLC

VARIABLES
    \* ---- polling tracker (wait_for_completion) ----
    script,     \* which script's SunoAPIClient runs
    max_wait,   \* the max_wait argument
    pc,         \* position in wait_for_completion
    now,        \* time.time() - start_time
    polls,      \* status requests issued so far
    sleeps,     \* time.sleep(poll_interval) calls completed so far
    slept,      \* seconds spent in those calls
    outstanding,\* status requests sent and not yet answered or given up
    last,       \* the reply to the latest status request
    seen,       \* the classes of the replies received so far
    scn,        \* how many replies of Scenario the replies so far match, in
                \* order and with none besides (-1: they are not a prefix of it)
    result,     \* the value returned to the caller (None until then)
    shown,      \* the failure message printed before sys.exit
    exit_status,\* the process exit status (-1 while running)
    \* ---- callback tracker (generate_hard_trap.py) ----
    callback_data, \* the module-level dict {received, data, error}
    srv_pc,     \* position of the run_server thread
    cur,        \* the request body the handler is working on
    inbox,      \* notifications sent to the listener and not yet accepted
    sent,       \* every notification body sent so far, in order
    answers,    \* <<body, HTTP status>> of every answered request, in order
    cb_max_wait,\* the max_wait argument of wait_for_callback
    w_pc,       \* position of the main thread in wait_for_callback
    w_now,      \* time.time() - start_time in wait_for_callback
    w_data,     \* the local variable data of wait_for_callback
    w_result,   \* the value wait_for_callback returned
    w_shown,    \* the failure message wait_for_callback printed
    w_exit,     \* exit status of the process (-1 while running)
    listening,  \* the socket HTTPServer((host, port), ...) bound is open
    stored_at   \* w_now when callback_data["data"] was set (-1 until then)

pollvars == <<script, max_wait, pc, now, polls, sleeps, slept, outstanding, last,
              seen, scn, result, shown, exit_status>>
cbvars == <<callback_data, srv_pc, cur, inbox, sent, answers, cb_max_wait,
            w_pc, w_now, w_data, w_result, w_shown, w_exit, listening,
            stored_at>>

VARIABLES
    \* ---- two callback trackers in one process (generate_hard_trap.py) ----
    j_srv,      \* position of each tracker's run_server thread
    j_cur,      \* the request body each tracker's handler is working on
    j_inbox,    \* notifications waiting at each tracker's listener
    j_nsent,    \* notifications sent so far, to either listener
    j_w,        \* position of each tracker's wait_for_callback
    j_result,   \* the value each wait_for_callback returned
    \* ---- run_codegen_review (.github/scripts/codegen_review.py) ----
    r_max,      \* the max_retries argument
    r_attempt,  \* the loop variable attempt
    r_pc,       \* position in run_codegen_review
    r_outs,     \* how each call of agent.run ended, in order
    r_waits,    \* the time.sleep(wait_time) calls made, in order
    r_ret       \* the value returned (None until then)

VARIABLES
    \* ---- main of the three generation scripts ----
    m_script,   \* which script's main runs
    m_pc,       \* position in main
    m_reply,    \* the answer to the generation request (NoSubmit until then)
    m_listening,\* the webhook listener socket is bound and listening
    m_task_id,  \* the value generate_music returned (None until then)
    m_idfile,   \* content of the task-id file (None: not written)
    m_resfile,  \* content of the result file (None: not written)
    m_read,     \* what wait_for_callback read from the mailbox
    m_wait,     \* how the wait for the job ended (NoOutcome until then)
    m_downloaded,\* tracks download_track saved
    m_shown,    \* the message printed before sys.exit
    m_exit,     \* exit status of the process (-1 while running)
    m_log,      \* the steps main has taken, in order
    \* ---- main of .github/scripts/codegen_review.py ----
    g_env,      \* the environment variables main reads
    g_pc,       \* position in main
    g_agent,    \* Agent(...) was called
    g_runs,     \* calls of agent.run
    g_exit,     \* exit status of the process (-1 while running)
    \* ---- otel_shutdown_fix.py ----
    o_env,      \* value of OTEL_SHUTDOWN_FIX_DISABLE
    o_pc,       \* "import" until the module body has run, then "ready"
    o_fix_installed, \* the module-level flag _fix_installed
    o_atexit,   \* registrations of _safe_shutdown_otel with atexit
    o_logging,  \* safe_shutdown wrappers around logging.shutdown
    o_thread,   \* safe_start wrappers around threading.Thread.start
    o_calls,    \* arguments of the install calls made so far, in order
    \* ---- interpreter exit and _safe_shutdown_otel (otel_shutdown_fix.py) ----
    x_pc,       \* "run" while the program runs, "exit" while atexit runs
    x_registered, \* the functions registered with atexit, in order
    x_ran,      \* the atexit functions run so far, in order
    x_finalizing, \* sys.is_finalizing() as _safe_shutdown_otel found it
    x_kinds,    \* what each provider's shutdown did in _safe_shutdown_otel
    x_attempted,\* the providers whose shutdown _safe_shutdown_otel called
    x_raised    \* the exception _safe_shutdown_otel let through (None: none)

mnvars == <<m_script, m_pc, m_reply, m_listening, m_task_id, m_idfile, m_resfile, m_read,
            m_wait, m_downloaded, m_shown, m_exit, m_log>>
cgvars == <<g_env, g_pc, g_agent, g_runs, g_exit>>
otvars == <<o_env, o_pc, o_fix_installed, o_atexit, o_logging, o_thread, o_calls>>
exvars == <<x_pc, x_registered, x_ran, x_finalizing, x_kinds, x_attempted,
            x_raised>>
newvars == <<mnvars, cgvars, otvars, exvars>>

tjvars == <<j_srv, j_cur, j_inbox, j_nsent, j_w, j_result>>
rvvars == <<r_max, r_attempt, r_pc, r_outs, r_waits, r_ret>>
\* the variables of the other specifications
extvars == <<tjvars, rvvars, newvars>>
vars == <<pollvars, cbvars, extvars>>

(***************************************************************************)
(* Bounds of the model.                                                    *)
(***************************************************************************)
\* max_wait values the caller passes to wait_for_completion
MaxWaitShort == 25
MaxWaitLong == 60
\* a status request that answers after part of its timeout
MidLatency == 20
\* the largest max_retries passed to run_codegen_review
MaxRetriesBound == 4
\* notifications the remote system sends to the listener
MaxSent == 3
\* the max_wait argument of wait_for_callback
MaxWaitCallback == 2
\* calls of install made after the import of otel_shutdown_fix
MaxInstalls == 3

(***************************************************************************)
(* Values.                                                                 *)
(***************************************************************************)
\* Python's None, and the result of dict.get on a missing key
None == "None"
Absent == "<absent>"

Scripts == {"generate_trap_polling", "generate_drill_chastushka", "generate_hard_trap"}
\* the two scripts whose main calls wait_for_completion
PollingScripts == {"generate_trap_polling", "generate_drill_chastushka"}

A1 == "http://x/a.mp3"
A2 == "http://x/b.mp3"
ArtifactLists == {<<>>, <<A1>>, <<A2, A1>>}

\* requests.get(..., timeout=30)
RequestTimeout == 30
Latencies == {0, MidLatency, RequestTimeout}

PollIntervalPolling == 10
PollIntervalHardTrap == 5
\* faulty variant: the interval doubled
PollIntervalDoubled(s) == 2 * PollIntervalPolling
poll_interval(s) ==
    IF s = "generate_hard_trap" THEN PollIntervalHardTrap ELSE PollIntervalPolling

(***************************************************************************)
(* Replies of the status endpoint.  net: how the HTTP exchange ended;      *)
(* http: the HTTP status; code: the body's "code"; dkind: the body's       *)
(* "data" (absent, null or an object); status, rkind ("response": absent,  *)
(* null or an object), lkind/list (response.data) and err (errorMessage)   *)
(* are the fields of that object; other: it has further keys (taskId...).  *)
(***************************************************************************)
Reply(net, http, code, dkind, status, rkind, lkind, list, err, other) ==
    [net |-> net, http |-> http, code |-> code, dkind |-> dkind,
     status |-> status, rkind |-> rkind, lkind |-> lkind, list |-> list,
     err |-> err, other |-> other]

Record(status, rkind, lkind, list, err) ==
    Reply("ok", 200, 200, "dict", status, rkind, lkind, list, err, TRUE)
NoRecord(net, http, code, dkind) ==
    Reply(net, http, code, dkind, Absent, "absent", "absent", <<>>, Absent, FALSE)

NoReply == NoRecord("none", 0, 0, "absent")

FailedQueries ==
    { NoRecord("exception", 0, 0, "absent"),     \* network error / timeout
      NoRecord("badjson", 200, 0, "absent"),     \* body is not JSON
      NoRecord("ok", 200, 500, "absent"),        \* body code is not 200
      \* body code is not 200 and the body carries a record all the same
      Reply("ok", 200, 500, "dict", "FAILED", "null", "absent", <<>>, "E1", TRUE),
      NoRecord("ok", 500, 500, "absent"),        \* HTTP error with a JSON body
      NoRecord("ok", 200, 200, "null"),          \* "data": null
      NoRecord("ok", 200, 200, "absent"),        \* no "data" key at all
      NoRecord("ok", 200, 200, "dict") }         \* "data": {}

WaitingRecords ==
    { Record("PENDING", "null", "absent", <<>>, Absent),
      Record("GENERATING", "null", "absent", <<>>, Absent),
      Record("success", "dict", "list", <<A1>>, Absent),   \* wrong case
      Record("Failed", "null", "absent", <<>>, "E1"),      \* wrong case
      Record("TEXT_SUCCESS", "dict", "list", <<>>, Absent),\* unmapped
      Record(Absent, "absent", "absent", <<>>, Absent) }   \* no status key

SuccessRecords ==
    { Record("SUCCESS", "dict", "list", l, Absent) : l \in ArtifactLists }
    \cup { Record("SUCCESS", "dict", "absent", <<>>, Absent),   \* "response": {}
           Record("SUCCESS", "absent", "absent", <<>>, Absent), \* no "response"
           Record("SUCCESS", "null", "absent", <<>>, Absent) }  \* "response": null

FailedRecords ==
    { Record("FAILED", "null", "absent", <<>>, e) : e \in {"E1", "E2", Absent} }

\* the example of the specification: PENDING, PENDING, SUCCESS with no
\* artifact, SUCCESS with one artifact
Scenario ==
    << Record("PENDING", "null", "absent", <<>>, Absent),
       Record("PENDING", "null", "absent", <<>>, Absent),
       Record("SUCCESS", "dict", "list", <<>>, Absent),
       Record("SUCCESS", "dict", "list", <<A1>>, Absent) >>

Replies == FailedQueries \cup WaitingRecords \cup SuccessRecords \cup FailedRecords

(***************************************************************************)
(* Vocabulary of the claims: what a reply is, read off the reply itself.   *)
(***************************************************************************)
\* network error, unparsable JSON body, or a body whose code is not 200
IsFailedQuery(r) == r.net # "ok" \/ r.code # 200
\* an answered query that carries no status record
IsNoData(r) == ~IsFailedQuery(r) /\ (r.dkind # "dict" \/ ~r.other)
IsRecord(r) == ~IsFailedQuery(r) /\ ~IsNoData(r)
\* the artifact list a SUCCESS record carries ("response" absent or without
\* "data" counts as the empty list)
ArtifactsOf(r) == IF r.rkind = "dict" /\ r.lkind = "list" THEN r.list ELSE <<>>
ClassOf(r) ==
    IF IsFailedQuery(r) THEN "QFAIL"
    ELSE IF IsNoData(r) THEN "NODATA"
    ELSE IF r.status = "SUCCESS" THEN
        (IF r.rkind = "null" THEN "SUCCESS_NULL"
         ELSE IF ArtifactsOf(r) # <<>> THEN "SUCCESS_LIST" ELSE "SUCCESS_EMPTY")
    ELSE IF r.status = "FAILED" THEN "FAILED"
    ELSE IF r.status \in {"PENDING", "GENERATING"} THEN r.status
    ELSE "UNMAPPED"

(***************************************************************************)
(* SunoAPIClient.get_task_status: the status record handed to              *)
(* wait_for_completion, or None.                                           *)
(***************************************************************************)
NoneData ==
    [kind |-> None, status |-> Absent, rkind |-> "absent", lkind |-> "absent",
     list |-> <<>>, err |-> Absent, other |-> FALSE]
DictOf(r) ==
    [kind |-> "dict", status |-> r.status, rkind |-> r.rkind, lkind |-> r.lkind,
     list |-> r.list, err |-> r.err, other |-> r.other]
\* data.get("data", {}) with no "data" key
EmptyDict == [NoneData EXCEPT !.kind = "dict"]

\* generate_trap_polling.py and generate_drill_chastushka.py: no
\* raise_for_status; a bare except returns None; data.get("data", {})
get_task_status_polling(r) ==
    IF r.net # "ok" THEN NoneData
    ELSE IF r.code # 200 THEN NoneData
    ELSE IF r.dkind = "absent" THEN EmptyDict
    ELSE IF r.dkind = "null" THEN NoneData
    ELSE DictOf(r)

\* generate_hard_trap.py: raise_for_status, then data["data"] (KeyError is
\* caught and gives None)
get_task_status_hard_trap(r) ==
    IF r.net # "ok" THEN NoneData
    ELSE IF r.http >= 400 THEN NoneData
    ELSE IF r.code # 200 THEN NoneData
    ELSE IF r.dkind \in {"absent", "null"} THEN NoneData
    ELSE DictOf(r)

get_task_status(s, r) ==
    IF s = "generate_hard_trap" THEN get_task_status_hard_trap(r)
    ELSE get_task_status_polling(r)

\* Python truth value of status_data: None and the empty dict are false
Truthy(sd) ==
    sd.kind = "dict"
    /\ (sd.status # Absent \/ sd.rkind # "absent" \/ sd.err # Absent \/ sd.other)

(***************************************************************************)
(* One pass of the body of wait_for_completion's loop on status_data.      *)
(* The outcome: where control goes (sleep, returned, exit_failed, crashed) *)
(* with the value returned and the message printed.                        *)
(***************************************************************************)
Outcome(p, res, msg) == [pc |-> p, result |-> res, shown |-> msg]
\* faulty variant: the next request follows without a sleep
GoLoopTest == Outcome("while", None, None)
GoSleep == Outcome("sleep", None, None)

\* faulty variant: only the first artifact is kept
AudioListFirstOnly(sd) ==
    IF sd.rkind = "absent" \/ sd.lkind = "absent" \/ sd.list = <<>> THEN <<>>
    ELSE <<Head(sd.list)>>
\* status_data.get("response", {}).get("data", [])
audio_list(sd) ==
    IF sd.rkind = "absent" \/ sd.lkind = "absent" THEN <<>> ELSE sd.list

\* if status == "SUCCESS": generate_trap_polling.py 150-161,
\* generate_drill_chastushka.py 154-163
OnSuccessPolling(sd) ==
    IF sd.rkind = "null" THEN Outcome("crashed", None, "AttributeError")
    ELSE IF audio_list(sd) # <<>> THEN Outcome("returned", audio_list(sd), None)
    ELSE GoSleep

\* generate_hard_trap.py 215-217: returns whatever list the record carries
OnSuccessHardTrap(sd) ==
    IF sd.rkind = "null" THEN Outcome("crashed", None, "AttributeError")
    ELSE Outcome("returned", audio_list(sd), None)

OnSuccess(s, sd) ==
    IF s = "generate_hard_trap" THEN OnSuccessHardTrap(sd) ELSE OnSuccessPolling(sd)

\* faulty variant: a FAILED status is retried like a pending one
OnFailedRetry(s, sd) == GoSleep
\* status_data.get("errorMessage", <default>)
UnknownError(s) == IF s = "generate_hard_trap" THEN "Unknown error" ELSE "Unknown"
OnFailed(s, sd) ==
    Outcome("exit_failed", None, IF sd.err = Absent THEN UnknownError(s) ELSE sd.err)

\* faulty variant: an unmapped status ends the wait as a failure
LoopBodyUnknownFatal(s, sd) ==
    IF ~Truthy(sd) THEN GoSleep
    ELSE IF sd.status = "SUCCESS" THEN OnSuccess(s, sd)
    ELSE IF sd.status = "FAILED" THEN OnFailed(s, sd)
    ELSE IF sd.status \in {"PENDING", "GENERATING"} THEN GoSleep
    ELSE Outcome("exit_failed", None, "Unknown status")
\* faulty variant: a status query that gave no record ends the wait as a failure
LoopBodyAbortOnNone(s, sd) ==
    IF ~Truthy(sd) THEN Outcome("exit_failed", None, "Failed to get status")
    ELSE IF sd.status = "SUCCESS" THEN OnSuccess(s, sd)
    ELSE IF sd.status = "FAILED" THEN OnFailed(s, sd)
    ELSE GoSleep
\* faulty variant: the status is compared without regard to case
LoopBodyCaseInsensitive(s, sd) ==
    IF ~Truthy(sd) THEN GoSleep
    ELSE IF sd.status \in {"SUCCESS", "success", "Success"} THEN OnSuccess(s, sd)
    ELSE IF sd.status \in {"FAILED", "failed", "Failed"} THEN OnFailed(s, sd)
    ELSE GoSleep
LoopBody(s, sd) ==
    IF ~Truthy(sd) THEN GoSleep
    ELSE IF sd.status = "SUCCESS" THEN OnSuccess(s, sd)
    ELSE IF sd.status = "FAILED" THEN OnFailed(s, sd)
    ELSE IF sd.status \in {"PENDING", "GENERATING"} THEN GoSleep
    ELSE GoSleep

\* sys.exit(1) on the FAILED branch, after the loop, and the status of a
\* process ended by an uncaught exception
ExitFailed == 1
ExitTimeout == 1
ExitUncaught == 1
Running == 0 - 1
\* callback_data["data"] is still None
NotStored == 0 - 1
ExitOf(p) ==
    IF p = "exit_failed" THEN ExitFailed
    ELSE IF p = "crashed" THEN ExitUncaught
    ELSE Running

(***************************************************************************)
(* wait_for_completion as a state machine.                                 *)
(***************************************************************************)
MaxWaits == {MaxWaitShort, MaxWaitLong}

(***************************************************************************)
(* Notification bodies POSTed to the listener.  kind: "garbage" is a body   *)
(* json.loads rejects, "object" a JSON object {code, data, msg}, "list" a   *)
(* JSON document that is not an object (json.loads gives a list); NoBody   *)
(* is Python's None where a body is expected.                              *)
(***************************************************************************)
Body(kind, code, data, msg) ==
    [kind |-> kind, code |-> code, data |-> data, msg |-> msg]
NoBody == Body(None, 0, <<>>, Absent)
Garbage == Body("garbage", 0, <<>>, Absent)
N1 == Body("object", 200, <<A1>>, "ok")
N2 == Body("object", 200, <<A2, A1>>, "ok")
NEmpty == Body("object", 200, <<>>, "ok")
NError == Body("object", 501, <<>>, "E1")
NErrorNoMsg == Body("object", 501, <<>>, Absent)
JsonList == Body("list", 0, <<>>, Absent)
Bodies == {Garbage, JsonList, N1, N2, NEmpty, NError, NErrorNoMsg}
\* json.loads(post_data.decode('utf-8')) succeeds
WellFormed(b) == b.kind \in {"object", "list"}
\* the body has the expected structure, an object {code, data, msg}
Expected(b) == b.kind = "object"

\* callback_data as the module creates it (generate_hard_trap.py 26-30)
CallbackDataInit == [received |-> FALSE, data |-> NoBody, error |-> None]

CallbackIdle ==
    /\ callback_data = CallbackDataInit
    /\ srv_pc = "off" /\ cur = NoBody /\ inbox = <<>> /\ sent = <<>>
    /\ answers = <<>> /\ cb_max_wait = 0 /\ w_pc = "off" /\ w_now = 0
    /\ w_data = NoBody /\ w_result = None /\ w_shown = None /\ w_exit = Running
    /\ listening = FALSE /\ stored_at = NotStored

\* two trackers for two jobs, each with its own listener
Jobs == {1, 2}
TwoJobsIdle ==
    /\ j_srv = [j \in Jobs |-> "off"] /\ j_cur = [j \in Jobs |-> NoBody]
    /\ j_inbox = [j \in Jobs |-> <<>>] /\ j_nsent = 0
    /\ j_w = [j \in Jobs |-> "off"] /\ j_result = [j \in Jobs |-> None]
ReviewIdle ==
    /\ r_max = 0 /\ r_attempt = 0 /\ r_pc = "off" /\ r_outs = <<>>
    /\ r_waits = <<>> /\ r_ret = None
\* what a step of main prints: its kind and the text it carries
Msg(kind, text) == [kind |-> kind, text |-> text]
NoMsg == Msg(None, None)
NoOutcome == [pc |-> None, result |-> None, shown |-> None]
NoSubmit == [net |-> None, http |-> 0, code |-> 0, msg |-> Absent, tid |-> Absent]
MainIdle ==
    /\ m_script = "generate_hard_trap" /\ m_pc = "off" /\ m_listening = FALSE
    /\ m_reply = NoSubmit
    /\ m_task_id = None /\ m_idfile = None /\ m_resfile = [written |-> FALSE, content |-> <<>>]
    /\ m_read = NoBody /\ m_wait = NoOutcome /\ m_downloaded = 0
    /\ m_shown = NoMsg /\ m_exit = Running /\ m_log = <<>>
NoEnv == [org |-> Absent, token |-> Absent, number |-> Absent,
          author |-> Absent, title |-> <<>>]
CodegenIdle ==
    /\ g_env = NoEnv /\ g_pc = "off" /\ g_agent = FALSE /\ g_runs = 0
    /\ g_exit = Running
OtelIdle ==
    /\ o_env = Absent /\ o_pc = "off" /\ o_fix_installed = FALSE
    /\ o_atexit = 0 /\ o_logging = 0 /\ o_thread = 0 /\ o_calls = <<>>
ExitIdle ==
    /\ x_pc = "off" /\ x_registered = <<>> /\ x_ran = <<>>
    /\ x_finalizing = FALSE /\ x_kinds = <<>> /\ x_attempted = {}
    /\ x_raised = None
NewIdle == MainIdle /\ CodegenIdle /\ OtelIdle /\ ExitIdle
ExtIdle == TwoJobsIdle /\ ReviewIdle /\ NewIdle

Init ==
    /\ ExtIdle
    /\ script \in Scripts
    /\ max_wait \in MaxWaits
    /\ pc = "while" /\ now = 0 /\ polls = 0 /\ sleeps = 0
    /\ slept = 0 /\ outstanding = 0
    /\ last = NoReply /\ seen = {} /\ scn = 0
    /\ result = None /\ shown = None /\ exit_status = Running
    /\ CallbackIdle

\* faulty variant: the loop is entered while elapsed time is at most max_wait
LoopTestInclusive ==
    /\ pc = "while"
    /\ IF now <= max_wait
       THEN /\ pc' = "request"
            /\ polls' = polls + 1
            /\ outstanding' = outstanding + 1
            /\ UNCHANGED <<shown, exit_status>>
       ELSE /\ pc' = "exit_timeout"
            /\ shown' = "Timeout"
            /\ exit_status' = ExitTimeout
            /\ UNCHANGED <<polls, outstanding>>
    /\ UNCHANGED <<script, max_wait, now, sleeps, slept, last, seen, scn, result,
                   cbvars>>
    /\ UNCHANGED extvars

\* while time.time() - start_time < max_wait: ... get_task_status(task_id)
LoopTest ==
    /\ pc = "while"
    /\ IF now < max_wait
       THEN /\ pc' = "request"
            /\ polls' = polls + 1
            /\ outstanding' = outstanding + 1
            /\ UNCHANGED <<shown, exit_status>>
       ELSE /\ pc' = "exit_timeout"
            /\ shown' = "Timeout"
            /\ exit_status' = ExitTimeout
            /\ UNCHANGED <<polls, outstanding>>
    /\ UNCHANGED <<script, max_wait, now, sleeps, slept, last, seen, scn, result,
                   cbvars>>
    /\ UNCHANGED extvars

\* the status request completes after d seconds with reply r, and the loop
\* body runs on what get_task_status hands over
Respond ==
    /\ pc = "request"
    /\ \E r \in Replies, d \in Latencies :
        LET o == LoopBody(script, get_task_status(script, r)) IN
        /\ now' = now + d
        /\ last' = r
        /\ seen' = seen \cup {ClassOf(r)}
        /\ scn' = IF scn = polls - 1 /\ polls <= Len(Scenario) /\ r = Scenario[polls]
                  THEN polls ELSE -1
        /\ pc' = o.pc
        /\ result' = o.result
        /\ shown' = o.shown
        /\ exit_status' = ExitOf(o.pc)
    /\ outstanding' = outstanding - 1
    /\ UNCHANGED <<script, max_wait, polls, sleeps, slept, cbvars>>
    /\ UNCHANGED extvars

\* time.sleep(poll_interval)
Sleep ==
    /\ pc = "sleep"
    /\ now' = now + poll_interval(script)
    /\ sleeps' = sleeps + 1
    /\ slept' = slept + poll_interval(script)
    /\ pc' = "while"
    /\ UNCHANGED <<script, max_wait, polls, outstanding, last, seen, scn, result,
                   shown, exit_status, cbvars>>
    /\ UNCHANGED extvars

Next == LoopTest \/ Respond \/ Sleep

Spec == Init /\ [][Next]_vars

(***************************************************************************)
(* Properties of wait_for_completion (specification Spec).                 *)
(***************************************************************************)
InLoop == pc \in {"while", "request", "sleep"}
Terminated == ~InLoop

\* C1: whenever the reply just received has status SUCCESS and a non-empty
\* artifact list, wait_for_completion has returned exactly that list, the
\* process has not exited, and no further status request is issued (the
\* tracker is never again at "request" or anywhere else in the loop).
C1_SuccessReturnsList ==
    (polls >= 1 /\ ClassOf(last) = "SUCCESS_LIST")
        => /\ pc = "returned"
           /\ result = ArtifactsOf(last)
           /\ exit_status = Running
           /\ shown = None
C1_Witness ==
    /\ script \in PollingScripts /\ pc = "returned" /\ polls >= 3
    /\ result = <<A2, A1>> /\ "PENDING" \in seen

\* C2: no wait_for_completion returns an empty artifact list: after a
\* SUCCESS reply with no artifact the tracker is still polling (or has
\* timed out), in every script.
C2_EmptySuccessNeverFinal ==
    /\ pc = "returned" => result # <<>>
    /\ (polls >= 1 /\ ClassOf(last) = "SUCCESS_EMPTY")
          => pc \in {"sleep", "while", "request", "exit_timeout"}

\* C3: in the polling scripts a return always carries the artifacts of the
\* latest reply, which is a SUCCESS with artifacts (so a SUCCESS with none
\* before it did not return); and when the replies are those of Scenario,
\* polled every 10 s (requests answered at once) with max_wait 60, the
\* tracker keeps polling through the first three and returns at the 4th
\* poll, 30 s in, with the one artifact.
RepliesAtOnce == now = sleeps * poll_interval(script)
C3_EmptyThenList ==
    script \in PollingScripts =>
        /\ pc = "returned"
              => ClassOf(last) = "SUCCESS_LIST" /\ result = ArtifactsOf(last)
        /\ (max_wait = MaxWaitLong /\ RepliesAtOnce /\ scn \in 0..3)
              => InLoop /\ now < max_wait /\ polls \in {scn, scn + 1}
        /\ (max_wait = MaxWaitLong /\ RepliesAtOnce /\ scn = 4)
              => /\ pc = "returned" /\ polls = 4 /\ result = <<A1>>
                 /\ now = 3 * PollIntervalPolling
C3_Witness ==
    /\ script \in PollingScripts /\ max_wait = MaxWaitLong /\ RepliesAtOnce
    /\ scn = 4 /\ pc = "returned" /\ "SUCCESS_EMPTY" \in seen
    /\ result = <<A1>>

\* C4: a FAILED reply ends the wait at once: the process has exited with a
\* failure status, nothing was returned, no further request is issued, and
\* the message printed is the reply's errorMessage.
C4_FailedTerminates ==
    (polls >= 1 /\ ClassOf(last) = "FAILED")
        => /\ pc = "exit_failed"
           /\ result = None
           /\ exit_status = ExitFailed
           /\ last.err # Absent => shown = last.err
C4_Witness ==
    /\ pc = "exit_failed" /\ polls = 1 /\ now = 0 /\ max_wait = MaxWaitLong
    /\ shown = "E2"

\* C5: a wait that ended after replies that were all PENDING, GENERATING or
\* an unmapped status ended in Timeout, max_wait having elapsed, with
\* nothing returned.
C5_AllWaitingTimesOut ==
    (Terminated /\ seen \subseteq {"PENDING", "GENERATING", "UNMAPPED"})
        => /\ pc = "exit_timeout"
           /\ shown = "Timeout"
           /\ result = None
           /\ now >= max_wait
C5_Witness ==
    /\ pc = "exit_timeout" /\ seen = {"PENDING", "GENERATING", "UNMAPPED"}
    /\ script \in PollingScripts

\* C6: after a failed status query (network error, unparsable body, code
\* not 200) the tracker is sleeping, testing the loop condition or querying
\* again, or has timed out: nothing was returned and no failure reported;
\* every query after the first follows one more sleep; and a wait in which
\* every query failed ends in Timeout only.
C6_QueryFailureRetried ==
    /\ (polls >= 1 /\ IsFailedQuery(last))
          => /\ pc \in {"sleep", "while", "request", "exit_timeout"}
             /\ result = None
             /\ InLoop => shown = None /\ exit_status = Running
    /\ pc \in {"request", "sleep"} => sleeps = polls - 1
    /\ pc = "while" => sleeps = polls
    /\ (Terminated /\ seen = {"QFAIL"})
          => pc = "exit_timeout" /\ shown = "Timeout" /\ now >= max_wait
C6_Witness ==
    /\ pc = "exit_timeout" /\ seen = {"QFAIL"} /\ polls >= 3
    /\ last.net = "badjson"

\* C7: what the caller observes on Timeout (value returned, exit status)
\* differs from what it observes when the remote reports FAILED (nothing
\* returned, exit status ExitFailed).
C7_TimeoutDistinct ==
    pc = "exit_timeout" => <<result, exit_status>> # <<None, ExitFailed>>

\* C8: wait_for_completion ends in one of three ways only: the artifact
\* list returned, a remote-failure exit, or a timeout exit.
C8_ThreeOutcomes ==
    Terminated => pc \in {"returned", "exit_failed", "exit_timeout"}

\* C16: only a record whose status is exactly "SUCCESS" makes
\* wait_for_completion return and only one whose status is exactly "FAILED"
\* makes it exit as failed; after a record with any other status (PENDING,
\* GENERATING, another case, an unknown string, no status) the tracker is
\* still waiting (or has timed out), with nothing returned or reported.
C16_ExactStatusMatch ==
    /\ pc = "returned" => last.status = "SUCCESS"
    /\ pc = "exit_failed" => last.status = "FAILED"
    /\ (polls >= 1 /\ IsRecord(last) /\ last.status \notin {"SUCCESS", "FAILED"})
          => /\ pc \in {"sleep", "while", "request", "exit_timeout"}
             /\ result = None
             /\ InLoop => shown = None /\ exit_status = Running
C16_Witness ==
    /\ last.status = "Failed" /\ pc = "request" /\ polls >= 3
    /\ seen = {"UNMAPPED"} /\ script \in PollingScripts

\* C18: a status request is issued only while the elapsed time is below
\* max_wait; Timeout is reported only when the elapsed time is at least
\* max_wait and no reply so far carried a terminal status (SUCCESS with
\* artifacts, or FAILED).
C18_QueryOnlyBeforeDeadline ==
    /\ pc = "request" => now < max_wait
    /\ (pc = "exit_timeout" \/ shown = "Timeout")
          => /\ now >= max_wait
             /\ seen \cap {"SUCCESS_LIST", "FAILED"} = {}
             /\ pc = "exit_timeout" /\ shown = "Timeout"
C18_Witness ==
    /\ pc = "exit_timeout" /\ shown = "Timeout" /\ now > max_wait
    /\ "SUCCESS_EMPTY" \in seen /\ script \in PollingScripts /\ polls >= 2

\* the replies after which wait_for_completion of script s goes on polling
NonTerminal(s) ==
    {"QFAIL", "NODATA", "PENDING", "GENERATING", "UNMAPPED"}
        \cup (IF s \in PollingScripts THEN {"SUCCESS_EMPTY"} ELSE {})

\* C19: any two consecutive status requests are separated by exactly one
\* sleep of poll_interval seconds, whichever non-terminal reply the first
\* of them received, and at most one status request is outstanding at any
\* time.
C19_OneSleepBetweenQueries ==
    /\ outstanding \in {0, 1}
    /\ outstanding = 1 <=> pc = "request"
    /\ pc \in {"while", "exit_timeout"} => sleeps = polls
    /\ pc \notin {"while", "exit_timeout"} => sleeps = polls - 1
    /\ slept = sleeps * poll_interval(script)
    /\ (polls >= 1 /\ pc # "request" /\ ClassOf(last) \in NonTerminal(script))
          => pc \in {"sleep", "while", "exit_timeout"}
C19_Witness ==
    /\ pc = "request" /\ polls >= 4 /\ sleeps = polls - 1
    /\ {"QFAIL", "SUCCESS_EMPTY", "PENDING", "GENERATING", "UNMAPPED"}
          \subseteq seen

\* C20: whatever status record get_task_status hands over (a SUCCESS
\* record whose response is absent, null or without a data list included),
\* wait_for_completion returns a non-empty artifact list, exits as failed
\* or timed out, or goes on polling: it never ends with an uncaught
\* exception.
C20_NoUncaughtException ==
    (polls >= 1 /\ IsRecord(last))
        => /\ pc # "crashed" /\ shown # "AttributeError"
           /\ exit_status \in {Running, ExitFailed, ExitTimeout}
           /\ pc = "returned" => Len(result) >= 1

(***************************************************************************)
(* The callback tracker of generate_hard_trap.py: the run_server thread    *)
(* started by start_webhook_server, WebhookHandler.do_POST running on it,  *)
(* and wait_for_callback on the main thread.  The two threads interleave   *)
(* at every access to callback_data.                                       *)
(***************************************************************************)
PollIdle ==
    /\ script = "generate_hard_trap" /\ max_wait = 0 /\ pc = "off" /\ now = 0
    /\ polls = 0 /\ sleeps = 0 /\ last = NoReply /\ seen = {} /\ scn = 0
    /\ slept = 0 /\ outstanding = 0
    /\ result = None /\ shown = None /\ exit_status = Running

\* the state once main has started the listener and submitted the job
InitCallback ==
    /\ PollIdle
    /\ ExtIdle
    /\ callback_data = CallbackDataInit
    /\ srv_pc = "loop" /\ cur = NoBody /\ inbox = <<>> /\ sent = <<>>
    /\ answers = <<>>
    /\ cb_max_wait \in 1..MaxWaitCallback
    /\ w_pc = "while" /\ w_now = 0 /\ w_data = NoBody /\ w_result = None
    /\ w_shown = None /\ w_exit = Running
    \* start_webhook_server: HTTPServer(('0.0.0.0', port), WebhookHandler)
    /\ listening = TRUE /\ stored_at = NotStored

\* the daemon thread runs only while the process does
ProcessAlive == w_exit = Running

\* the remote system POSTs a notification; it waits in the listening
\* socket's queue until handle_request accepts it
Send ==
    /\ Len(sent) < MaxSent
    /\ \E b \in Bodies :
        /\ inbox' = Append(inbox, b)
        /\ sent' = Append(sent, b)
    /\ UNCHANGED <<listening, stored_at, extvars>>
    /\ UNCHANGED <<pollvars, callback_data, srv_pc, cur, answers, cb_max_wait,
                   w_pc, w_now, w_data, w_result, w_shown, w_exit>>

\* faulty variant: the server loop never stops serving
ServeAlways(cd) == TRUE
\* run_server: while not callback_data["received"]
ServeAgain(cd) == ~cd.received

run_server_test ==
    /\ ProcessAlive
    /\ srv_pc = "loop"
    /\ srv_pc' = IF ServeAgain(callback_data) THEN "accept" ELSE "stopped"
    /\ UNCHANGED <<listening, stored_at, extvars>>
    /\ UNCHANGED <<pollvars, callback_data, cur, inbox, sent, answers,
                   cb_max_wait, w_pc, w_now, w_data, w_result, w_shown, w_exit>>

\* faulty variant: a body that failed to parse fulfils the mailbox all the same
ParseErrorFulfils(cd) == [cd EXCEPT !.received = TRUE, !.error = "JSONDecodeError"]
\* do_POST, except branch: callback_data["error"] = str(e)
ParseError(cd) == [cd EXCEPT !.error = "JSONDecodeError"]

\* server.handle_request() accepts the oldest waiting request and do_POST
\* reads and parses its body (lines 43-47); a body that does not parse is
\* answered 500 by the except branch (lines 61-65)
do_POST_parse ==
    /\ ProcessAlive
    /\ srv_pc = "accept"
    /\ inbox # <<>>
    /\ inbox' = Tail(inbox)
    /\ IF WellFormed(Head(inbox))
       THEN /\ cur' = Head(inbox)
            /\ srv_pc' = "parsed"
            /\ UNCHANGED <<callback_data, answers>>
       ELSE /\ callback_data' = ParseError(callback_data)
            /\ answers' = Append(answers, [body |-> Head(inbox), status |-> 500])
            /\ srv_pc' = "loop"
            /\ UNCHANGED cur
    /\ UNCHANGED <<listening, stored_at, extvars>>
    /\ UNCHANGED <<pollvars, sent, cb_max_wait, w_pc, w_now, w_data, w_result,
                   w_shown, w_exit>>

\* line 50: callback_data["received"] = True
do_POST_received ==
    /\ ProcessAlive
    /\ srv_pc = "parsed"
    /\ callback_data' = [callback_data EXCEPT !.received = TRUE]
    /\ srv_pc' = "flagged"
    /\ UNCHANGED <<listening, stored_at, extvars>>
    /\ UNCHANGED <<pollvars, cur, inbox, sent, answers, cb_max_wait, w_pc,
                   w_now, w_data, w_result, w_shown, w_exit>>

\* line 51: callback_data["data"] = data
do_POST_data ==
    /\ ProcessAlive
    /\ srv_pc = "flagged"
    /\ callback_data' = [callback_data EXCEPT !.data = cur]
    /\ stored_at' = w_now
    /\ srv_pc' = "stored"
    /\ UNCHANGED <<listening, extvars>>
    /\ UNCHANGED <<pollvars, cur, inbox, sent, answers, cb_max_wait, w_pc,
                   w_now, w_data, w_result, w_shown, w_exit>>

\* lines 53-59: send_response(200) and the {"status": "ok"} body
do_POST_respond ==
    /\ ProcessAlive
    /\ srv_pc = "stored"
    /\ answers' = Append(answers, [body |-> cur, status |-> 200])
    /\ cur' = NoBody
    /\ srv_pc' = "loop"
    /\ UNCHANGED <<listening, stored_at, extvars>>
    /\ UNCHANGED <<pollvars, callback_data, inbox, sent, cb_max_wait, w_pc,
                   w_now, w_data, w_result, w_shown, w_exit>>

\* faulty variant: when max_wait has elapsed the wait gives up by returning
\* an empty result
wfc_test_returns ==
    /\ w_pc = "while"
    /\ IF w_now < cb_max_wait
       THEN /\ w_pc' = "check"
            /\ UNCHANGED <<w_result, w_shown, w_exit>>
       ELSE /\ w_pc' = "returned"
            /\ w_result' = <<>>
            /\ UNCHANGED <<w_shown, w_exit>>
    /\ UNCHANGED <<listening, stored_at, extvars>>
    /\ UNCHANGED <<pollvars, callback_data, srv_pc, cur, inbox, sent, answers,
                   cb_max_wait, w_now, w_data>>

\* wait_for_callback: while time.time() - start_time < max_wait
wfc_test ==
    /\ w_pc = "while"
    /\ IF w_now < cb_max_wait
       THEN /\ w_pc' = "check"
            /\ UNCHANGED <<w_shown, w_exit>>
       ELSE /\ w_pc' = "exit_timeout"
            /\ w_shown' = "Timeout"
            /\ w_exit' = ExitTimeout
    /\ UNCHANGED <<listening, stored_at, extvars>>
    /\ UNCHANGED <<pollvars, callback_data, srv_pc, cur, inbox, sent, answers,
                   cb_max_wait, w_now, w_data, w_result>>

\* line 325: if callback_data["received"]
wfc_check ==
    /\ w_pc = "check"
    /\ w_pc' = IF callback_data.received THEN "read" ELSE "sleep"
    /\ UNCHANGED <<listening, stored_at, extvars>>
    /\ UNCHANGED <<pollvars, callback_data, srv_pc, cur, inbox, sent, answers,
                   cb_max_wait, w_now, w_data, w_result, w_shown, w_exit>>

\* what lines 326-334 do with data = callback_data["data"]
wfc_outcome(data) ==
    IF data.kind # "object" THEN Outcome("crashed", None, "AttributeError")
    ELSE IF data.code = 200 THEN Outcome("returned", data.data, None)
    ELSE Outcome("exit_failed", None,
                 IF data.msg = Absent THEN "Unknown error" ELSE data.msg)

\* lines 326-334: data = callback_data["data"], then return or sys.exit(1)
wfc_read ==
    /\ w_pc = "read"
    /\ w_data' = callback_data.data
    /\ LET o == wfc_outcome(callback_data.data) IN
        /\ w_pc' = o.pc
        /\ w_result' = o.result
        /\ w_shown' = o.shown
        /\ w_exit' = ExitOf(o.pc)
    /\ UNCHANGED <<listening, stored_at, extvars>>
    /\ UNCHANGED <<pollvars, callback_data, srv_pc, cur, inbox, sent, answers,
                   cb_max_wait, w_now>>

\* line 340: time.sleep(1)
wfc_sleep ==
    /\ w_pc = "sleep"
    /\ w_now' = w_now + 1
    /\ w_pc' = "while"
    /\ UNCHANGED <<listening, stored_at, extvars>>
    /\ UNCHANGED <<pollvars, callback_data, srv_pc, cur, inbox, sent, answers,
                   cb_max_wait, w_data, w_result, w_shown, w_exit>>

NextCallback ==
    \/ Send
    \/ run_server_test \/ do_POST_parse \/ do_POST_received \/ do_POST_data
    \/ do_POST_respond
    \/ wfc_test \/ wfc_check \/ wfc_read \/ wfc_sleep

SpecCallback == InitCallback /\ [][NextCallback]_vars

(***************************************************************************)
(* Properties of the callback tracker (specification SpecCallback).        *)
(***************************************************************************)
WellFormedSent == SelectSeq(sent, WellFormed)
Answered(st) == SelectSeq(answers, LAMBDA a : a.status = st)

\* C9: the mailbox only ever holds the first well-formed notification sent,
\* wait_for_callback returns the content of that one only, and at most one
\* notification is ever accepted (answered 200): a second well-formed one
\* changes nothing.
C9_FirstWriterWins ==
    /\ callback_data.data # NoBody
          => WellFormedSent # <<>> /\ callback_data.data = WellFormedSent[1]
    /\ w_pc = "returned" => w_result = WellFormedSent[1].data
    /\ Len(Answered(200)) <= 1
C9_Witness ==
    /\ sent = <<N1, N2>> /\ w_pc = "returned" /\ w_result = N1.data
    /\ callback_data.data = N1 /\ inbox = <<N2>>
    /\ answers = <<[body |-> N1, status |-> 200]>>

\* C10: every body that does not parse is answered 500 and every
\* well-formed one that is answered is answered 200 with the mailbox
\* holding it; as long as only unparsable bodies have arrived an error is
\* recorded, received is false, data is unchanged (None) and the server
\* keeps serving: it stops only once the mailbox is fulfilled.
C10_MalformedThenValid ==
    /\ \A i \in DOMAIN answers :
          IF WellFormed(answers[i].body)
          THEN /\ answers[i].status = 200
               /\ callback_data.received /\ callback_data.data = answers[i].body
          ELSE answers[i].status = 500 /\ callback_data.error # None
    /\ (srv_pc \in {"loop", "accept"} /\ Len(Answered(500)) = Len(answers))
          => /\ ~callback_data.received
             /\ callback_data.data = NoBody
    /\ srv_pc = "stopped" => callback_data.received
C10_Witness ==
    /\ answers = <<[body |-> Garbage, status |-> 500], [body |-> N2, status |-> 200]>>
    /\ callback_data = [received |-> TRUE, data |-> N2, error |-> "JSONDecodeError"]
    /\ w_pc = "returned" /\ w_result = N2.data /\ w_now >= 1

\* C11: a body that is not a JSON object {code, data, msg}, valid JSON such
\* as a list included, is answered with an error status, never fulfils the
\* mailbox, and does not make wait_for_callback end with an exception.
C11_NonObjectIsMalformed ==
    /\ \A i \in DOMAIN answers :
          ~Expected(answers[i].body) => answers[i].status = 500
    /\ callback_data.data # NoBody => Expected(callback_data.data)
    /\ callback_data.received => Len(SelectSeq(sent, Expected)) >= 1
    /\ ~(w_pc = "crashed" /\ w_data = JsonList)

\* C12: callback_data["received"] is true only when callback_data["data"]
\* already holds the parsed notification, and wait_for_callback never reads
\* a missing (None) payload.
C12_ReceivedImpliesData ==
    /\ callback_data.received => callback_data.data # NoBody
    /\ ~(w_pc = "crashed" /\ w_data = NoBody)

\* C13: wait_for_callback looks at the mailbox once per second slept while
\* less than max_wait seconds have elapsed; a wait that ended with nothing
\* stored in the mailbox ended in Timeout, after max_wait seconds, with
\* nothing returned; and Timeout happens only once max_wait has elapsed.
WfcTerminated == w_pc \in {"returned", "exit_failed", "exit_timeout", "crashed"}
C13_CallbackTimeout ==
    /\ (WfcTerminated /\ ~callback_data.received)
          => /\ w_pc = "exit_timeout"
             /\ w_shown = "Timeout"
             /\ w_result = None
             /\ w_exit = ExitTimeout
    /\ w_pc = "exit_timeout" => w_now >= cb_max_wait /\ w_result = None
    /\ w_pc \in {"check", "read", "sleep"} => w_now < cb_max_wait
C13_Witness ==
    /\ w_pc = "exit_timeout" /\ ~callback_data.received
    /\ w_now = cb_max_wait /\ cb_max_wait = MaxWaitCallback
    /\ answers = <<[body |-> Garbage, status |-> 500]>>

\* C23: when a well-formed notification with code 200 was stored in the
\* mailbox strictly before max_wait seconds of wait_for_callback had
\* elapsed, a wait_for_callback that has ended has returned that
\* notification's data: it has not exited with Timeout.
C23_StoredInTimeReturned ==
    (/\ 0 <= stored_at /\ stored_at < cb_max_wait
     /\ Expected(callback_data.data) /\ callback_data.data.code = 200
     /\ WfcTerminated)
        => w_pc = "returned" /\ w_result = callback_data.data.data

\* C14: once the tracking operation has ended (wait_for_callback returned,
\* or exited on a remote failure or on Timeout) the listening socket is
\* closed and the server thread is no longer serving.
C14_ListenerClosed ==
    w_pc \in {"returned", "exit_failed", "exit_timeout"}
        => ~listening /\ srv_pc \in {"stopped", "off"}

(***************************************************************************)
(* Two tracking operations for two jobs in one process (specification      *)
(* SpecTwoJobs): each has its own listener (start_webhook_server on its    *)
(* own port) and its own wait_for_callback, and both run the code of       *)
(* generate_hard_trap.py, whose handler and waiter use the one             *)
(* module-level callback_data.  The remote system notifies listener j      *)
(* about job j only.                                                       *)
(***************************************************************************)
\* the notification the remote system sends for job j
JobNote(j) == IF j = 1 THEN N1 ELSE N2
cbrest == <<srv_pc, cur, inbox, sent, answers, cb_max_wait, w_pc, w_now,
            w_data, w_result, w_shown, w_exit, listening, stored_at>>

InitTwoJobs ==
    /\ PollIdle /\ ReviewIdle /\ NewIdle
    /\ callback_data = CallbackDataInit
    /\ srv_pc = "off" /\ cur = NoBody /\ inbox = <<>> /\ sent = <<>>
    /\ answers = <<>> /\ cb_max_wait = 0 /\ w_pc = "off" /\ w_now = 0
    /\ w_data = NoBody /\ w_result = None /\ w_shown = None /\ w_exit = Running
    /\ listening = FALSE /\ stored_at = NotStored
    /\ j_srv = [j \in Jobs |-> "loop"] /\ j_cur = [j \in Jobs |-> NoBody]
    /\ j_inbox = [j \in Jobs |-> <<>>] /\ j_nsent = 0
    /\ j_w = [j \in Jobs |-> "check"] /\ j_result = [j \in Jobs |-> None]

\* the remote system POSTs to listener j: job j's notification, or a body
\* that is not JSON
TJ_Send(j) ==
    /\ j_nsent < MaxSent
    /\ \E b \in {JobNote(j), Garbage} :
        j_inbox' = [j_inbox EXCEPT ![j] = Append(@, b)]
    /\ j_nsent' = j_nsent + 1
    /\ UNCHANGED <<pollvars, callback_data, cbrest, rvvars, newvars, j_srv, j_cur, j_w,
                   j_result>>

\* run_server of listener j: while not callback_data["received"]
TJ_run_server_test(j) ==
    /\ j_srv[j] = "loop"
    /\ j_srv' = [j_srv EXCEPT ![j] =
                    IF ServeAgain(callback_data) THEN "accept" ELSE "stopped"]
    /\ UNCHANGED <<pollvars, callback_data, cbrest, rvvars, newvars, j_cur, j_inbox,
                   j_nsent, j_w, j_result>>

\* do_POST on listener j, lines 43-47 and the except branch
TJ_do_POST_parse(j) ==
    /\ j_srv[j] = "accept"
    /\ j_inbox[j] # <<>>
    /\ j_inbox' = [j_inbox EXCEPT ![j] = Tail(@)]
    /\ IF WellFormed(Head(j_inbox[j]))
       THEN /\ j_cur' = [j_cur EXCEPT ![j] = Head(j_inbox[j])]
            /\ j_srv' = [j_srv EXCEPT ![j] = "parsed"]
            /\ UNCHANGED callback_data
       ELSE /\ callback_data' = ParseError(callback_data)
            /\ j_srv' = [j_srv EXCEPT ![j] = "loop"]
            /\ UNCHANGED j_cur
    /\ UNCHANGED <<pollvars, cbrest, rvvars, newvars, j_nsent, j_w, j_result>>

\* do_POST on listener j, lines 50-59
TJ_do_POST_store(j) ==
    /\ j_srv[j] \in {"parsed", "flagged"}
    /\ IF j_srv[j] = "parsed"
       THEN /\ callback_data' = [callback_data EXCEPT !.received = TRUE]
            /\ j_srv' = [j_srv EXCEPT ![j] = "flagged"]
       ELSE /\ callback_data' = [callback_data EXCEPT !.data = j_cur[j]]
            /\ j_srv' = [j_srv EXCEPT ![j] = "loop"]
    /\ UNCHANGED <<pollvars, cbrest, rvvars, newvars, j_cur, j_inbox, j_nsent, j_w,
                   j_result>>

\* wait_for_callback of tracker j, line 325 (and the sleep when nothing is
\* there yet)
TJ_wfc_check(j) ==
    /\ j_w[j] = "check"
    /\ callback_data.received
    /\ j_w' = [j_w EXCEPT ![j] = "read"]
    /\ UNCHANGED <<pollvars, callback_data, cbrest, rvvars, newvars, j_srv, j_cur,
                   j_inbox, j_nsent, j_result>>

\* wait_for_callback of tracker j, lines 326-334
TJ_wfc_read(j) ==
    /\ j_w[j] = "read"
    /\ LET o == wfc_outcome(callback_data.data) IN
        /\ j_w' = [j_w EXCEPT ![j] = o.pc]
        /\ j_result' = [j_result EXCEPT ![j] = o.result]
    /\ UNCHANGED <<pollvars, callback_data, cbrest, rvvars, newvars, j_srv, j_cur,
                   j_inbox, j_nsent>>

NextTwoJobs ==
    \E j \in Jobs :
        \/ TJ_Send(j)
        \/ TJ_run_server_test(j)
        \/ TJ_do_POST_parse(j)
        \/ TJ_do_POST_store(j)
        \/ TJ_wfc_check(j)
        \/ TJ_wfc_read(j)

SpecTwoJobs == InitTwoJobs /\ [][NextTwoJobs]_vars

\* C15: the result a tracker returns is the content of its own job's
\* notification: a notification for the other job never changes it.
C15_NoInterference ==
    \A j \in Jobs : j_w[j] = "returned" => j_result[j] = JobNote(j).data

(***************************************************************************)
(* run_codegen_review of .github/scripts/codegen_review.py: the retry loop *)
(* around agent.run.  The prints of the function are taken not to raise.   *)
(***************************************************************************)
\* how one call of agent.run can end: it returns, it raises TimeoutError,
\* it raises another Exception, or it raises a BaseException that no except
\* clause of the function names (KeyboardInterrupt, SystemExit)
RunOutcomes == {"ok", "TimeoutError", "Exception", "BaseException"}
\* except TimeoutError: ... except Exception as e: ...
Caught(o) == o \in {"TimeoutError", "Exception"}
\* faulty variant: the loop runs once more than max_retries
InRangeOneMore(attempt, m) == 1 <= attempt /\ attempt <= m + 1
\* for attempt in range(1, max_retries + 1)
InRange(attempt, m) == 1 <= attempt /\ attempt <= m
\* wait_time = 2 ** attempt
wait_time(attempt) == 2 ^ attempt
\* max_retries: int = 3
DefaultMaxRetries == 3

InitReview ==
    /\ PollIdle /\ CallbackIdle /\ TwoJobsIdle /\ NewIdle
    /\ r_max \in 0..MaxRetriesBound
    /\ r_attempt = 1 /\ r_pc = "for"
    /\ r_outs = <<>> /\ r_waits = <<>> /\ r_ret = None

\* the head of the for loop, and the return False after it
review_for ==
    /\ r_pc = "for"
    /\ IF InRange(r_attempt, r_max)
         THEN r_pc' = "try" /\ r_ret' = r_ret
         ELSE r_pc' = "done" /\ r_ret' = "False"
    /\ UNCHANGED <<pollvars, cbvars, tjvars, newvars, r_max, r_attempt, r_outs, r_waits>>

\* one pass of the try statement: agent.run, then return True or the
\* except clause that matches
review_try ==
    /\ r_pc = "try"
    /\ \E o \in RunOutcomes :
        /\ r_outs' = Append(r_outs, o)
        /\ IF o = "ok"
             THEN r_pc' = "done" /\ r_ret' = "True" /\ r_attempt' = r_attempt
             ELSE IF Caught(o)
             THEN /\ r_ret' = r_ret
                  /\ IF r_attempt < r_max
                       THEN r_pc' = "sleep" /\ r_attempt' = r_attempt
                       ELSE r_pc' = "for" /\ r_attempt' = r_attempt + 1
             ELSE r_pc' = "raised" /\ r_ret' = r_ret /\ r_attempt' = r_attempt
    /\ UNCHANGED <<pollvars, cbvars, tjvars, newvars, r_max, r_waits>>

\* time.sleep(wait_time) in either except clause, then the next attempt
review_sleep ==
    /\ r_pc = "sleep"
    /\ r_waits' = Append(r_waits, wait_time(r_attempt))
    /\ r_attempt' = r_attempt + 1
    /\ r_pc' = "for"
    /\ UNCHANGED <<pollvars, cbvars, tjvars, newvars, r_max, r_outs, r_ret>>

NextReview ==
    \/ review_for
    \/ review_try
    \/ review_sleep

SpecReview == InitReview /\ [][NextReview]_vars

\* the calls of agent.run that ended without raising
Completed == {i \in 1..Len(r_outs) : r_outs[i] = "ok"}

\* C17: run_codegen_review calls agent.run at most max_retries times and
\* never again after a call that completed; it returns True exactly when a
\* call completed, and returns False only after max_retries calls that all
\* raised TimeoutError or another Exception.
C17_RetryContract ==
    /\ Len(r_outs) <= r_max
    /\ \A i \in Completed : i = Len(r_outs)
    /\ r_ret = "True" <=> Completed # {}
    /\ Completed # {} => r_pc = "done"
    /\ r_ret = "False" =>
          /\ Len(r_outs) = r_max
          /\ \A i \in 1..Len(r_outs) : Caught(r_outs[i])
C17_Witness ==
    /\ r_pc = "done" /\ r_ret = "True" /\ r_max = MaxRetriesBound
    /\ Len(r_outs) = r_max /\ Len(r_waits) = r_max - 1

\* C27: with the default max_retries and every attempt failing, the
\* backoff waits run_codegen_review has slept when it returns are 2 s, 4 s
\* and 8 s, one after each attempt.
C27_BackoffWaits ==
    (r_max = DefaultMaxRetries /\ r_pc = "done" /\ r_ret = "False")
        => r_waits = <<2, 4, 8>>

(***************************************************************************)
(* main of the three generation scripts: submit the job, save the task id, *)
(* wait for the job (by polling, or for the callback in                    *)
(* generate_hard_trap.py), save the result, download the tracks.           *)
(***************************************************************************)
\* the answer to requests.post(url, json=config, ...): how the request went,
\* the HTTP status, and the code, msg and data.taskId of the JSON body
SubmitReply(net, http, code, msg, tid) ==
    [net |-> net, http |-> http, code |-> code, msg |-> msg, tid |-> tid]
SubmitReplies ==
    { SubmitReply("exception", 0, 0, Absent, Absent),   \* network error
      SubmitReply("badjson", 200, 0, Absent, Absent),   \* body is not JSON
      SubmitReply("ok", 200, 200, "success", "t1"),
      SubmitReply("ok", 200, 200, "success", "t2"),
      SubmitReply("ok", 200, 200, "success", None),     \* "taskId": null
      SubmitReply("ok", 200, 200, "success", Absent),   \* no "data"/"taskId"
      SubmitReply("ok", 200, 400, "E1", Absent),
      SubmitReply("ok", 200, 400, "E1", "t1"),          \* an id all the same
      SubmitReply("ok", 200, 429, Absent, Absent),      \* no "msg"
      SubmitReply("ok", 500, 200, "success", "t1"),     \* HTTP error status
      SubmitReply("ok", 500, 500, "E2", Absent) }

\* what generate_music does: return the task id, or print and sys.exit(1)
Submitted(p, tid, msg) == [pc |-> p, task_id |-> tid, shown |-> msg]
\* faulty variant: the code of the body is not looked at
generate_music_any_code(s, r) ==
    IF r.net # "ok" \/ r.tid = Absent THEN Submitted("exit", None, Msg("Error", None))
    ELSE Submitted("return", r.tid, NoMsg)
\* generate_trap_polling.py 96-111, generate_drill_chastushka.py 100-115
generate_music_polling(r) ==
    IF r.net # "ok" THEN Submitted("exit", None, Msg("Error", None))
    ELSE IF r.code # 200
    THEN Submitted("exit", None,
                   Msg("API Error", IF r.msg = Absent THEN None ELSE r.msg))
    ELSE IF r.tid = Absent THEN Submitted("exit", None, Msg("Error", None))
    ELSE Submitted("return", r.tid, NoMsg)
\* generate_hard_trap.py 153-171
generate_music_hard_trap(r) ==
    IF r.net # "ok" \/ r.http >= 400
    THEN Submitted("exit", None, Msg("Network error", None))
    ELSE IF r.code # 200
    THEN Submitted("exit", None,
                   Msg("Error: API Error",
                       IF r.msg = Absent THEN "Unknown error" ELSE r.msg))
    ELSE IF r.tid = Absent THEN Submitted("exit", None, Msg("Error", None))
    ELSE Submitted("return", r.tid, NoMsg)
generate_music(s, r) ==
    IF s = "generate_hard_trap" THEN generate_music_hard_trap(r)
    ELSE generate_music_polling(r)

\* a file: whether it was written, and with what
File(written, content) == [written |-> written, content |-> content]
NoFile == File(FALSE, <<>>)

\* faulty variant: every main begins with the submission
FirstStepSubmit(s) == "submit"
\* the first statement of main after the client set-up
FirstStep(s) == IF s = "generate_hard_trap" THEN "start" ELSE "submit"

InitMain ==
    /\ PollIdle /\ CallbackIdle /\ TwoJobsIdle /\ ReviewIdle
    /\ CodegenIdle /\ OtelIdle /\ ExitIdle
    /\ m_script \in Scripts
    /\ m_pc = FirstStep(m_script) /\ m_reply = NoSubmit
    /\ m_listening = FALSE /\ m_task_id = None /\ m_idfile = None
    /\ m_resfile = NoFile /\ m_read = NoBody /\ m_wait = NoOutcome
    /\ m_downloaded = 0 /\ m_shown = NoMsg /\ m_exit = Running /\ m_log = <<>>

mainrest == <<pollvars, cbvars, tjvars, rvvars, cgvars, otvars, exvars>>

\* start_webhook_server, get_public_url and time.sleep(1): HTTPServer(...)
\* binds and listens, or raises OSError when the port is taken
m_start_webhook_server ==
    /\ m_pc = "start"
    /\ \E bound \in BOOLEAN :
        IF bound
        THEN /\ m_listening' = TRUE
             /\ m_pc' = "submit"
             /\ m_log' = Append(m_log, "listen")
             /\ UNCHANGED <<m_shown, m_exit>>
        ELSE /\ m_pc' = "crashed"
             /\ m_shown' = Msg("OSError", None)
             /\ m_exit' = ExitUncaught
             /\ m_log' = Append(m_log, "exit")
             /\ UNCHANGED m_listening
    /\ UNCHANGED <<m_script, m_reply, m_task_id, m_idfile, m_resfile, m_read, m_wait,
                   m_downloaded, mainrest>>

\* task_id = client.generate_music(...)
m_generate_music ==
    /\ m_pc = "submit"
    /\ \E r \in SubmitReplies :
        LET g == generate_music(m_script, r) IN
        /\ m_reply' = r
        /\ m_task_id' = g.task_id
        /\ m_shown' = g.shown
        /\ IF g.pc = "return"
           THEN /\ m_pc' = "save_id"
                /\ m_log' = Append(m_log, "submit")
                /\ UNCHANGED m_exit
           ELSE /\ m_pc' = "exit"
                /\ m_exit' = ExitFailed
                /\ m_log' = m_log \o <<"submit", "exit">>
    /\ UNCHANGED <<m_script, m_listening, m_idfile, m_resfile, m_read, m_wait,
                   m_downloaded, mainrest>>

\* faulty variant: the task id is kept in memory only
m_save_task_id_skipped ==
    /\ m_pc = "save_id"
    /\ m_pc' = "wait"
    /\ UNCHANGED <<m_script, m_reply, m_listening, m_task_id, m_idfile, m_resfile, m_read,
                   m_wait, m_downloaded, m_shown, m_exit, m_log, mainrest>>
\* Path(...).write_text(task_id); a null taskId makes write_text raise TypeError
m_save_task_id ==
    /\ m_pc = "save_id"
    /\ IF m_task_id = None
       THEN /\ m_pc' = "crashed"
            /\ m_shown' = Msg("TypeError", None)
            /\ m_exit' = ExitUncaught
            /\ m_log' = Append(m_log, "exit")
            /\ UNCHANGED m_idfile
       ELSE /\ m_idfile' = m_task_id
            /\ m_pc' = "wait"
            /\ m_log' = Append(m_log, "save_id")
            /\ UNCHANGED <<m_shown, m_exit>>
    /\ UNCHANGED <<m_script, m_reply, m_listening, m_task_id, m_resfile, m_read, m_wait,
                   m_downloaded, mainrest>>

\* "wait" is logged when the wait begins
LogWait == IF m_log[Len(m_log)] = "wait" THEN m_log ELSE Append(m_log, "wait")
\* where main goes when the wait ends with outcome o
EndWait(o, next) ==
    /\ m_wait' = o
    /\ IF o.pc = "returned"
       THEN /\ m_pc' = next
            /\ m_log' = LogWait
            /\ UNCHANGED <<m_shown, m_exit>>
       ELSE /\ m_pc' = IF o.pc = "crashed" THEN "crashed" ELSE "exit"
            /\ m_shown' = Msg(o.pc, o.shown)
            /\ m_exit' = IF o.pc = "crashed" THEN ExitUncaught
                         ELSE IF o.pc = "exit_timeout" THEN ExitTimeout
                         ELSE ExitFailed
            /\ m_log' = Append(LogWait, "exit")
TimedOut == Outcome("exit_timeout", None, "Timeout")

\* audio_list = client.wait_for_completion(task_id): one status request and
\* the loop body on its reply, or the loop test failing
m_wait_for_completion ==
    /\ m_pc = "wait" /\ m_script \in PollingScripts
    /\ \/ \E r \in Replies :
            LET o == LoopBody(m_script, get_task_status(m_script, r)) IN
            IF o.pc = "sleep"
            THEN m_log' = LogWait /\ UNCHANGED <<m_pc, m_wait, m_shown, m_exit>>
            ELSE EndWait(o, "save_result")
       \/ EndWait(TimedOut, "save_result")
    /\ UNCHANGED <<m_script, m_reply, m_listening, m_task_id, m_idfile, m_resfile, m_read,
                   m_downloaded, mainrest>>

\* what the mailbox can hold when wait_for_callback reads it: a body that
\* json.loads accepted, or None when "received" was set and "data" not yet
Stored == {b \in Bodies : WellFormed(b)} \cup {NoBody}

\* audio_info = wait_for_callback(): it reads the mailbox, or times out
m_wait_for_callback ==
    /\ m_pc = "wait" /\ m_script = "generate_hard_trap"
    /\ \/ \E d \in Stored :
            /\ m_read' = d
            /\ EndWait(wfc_outcome(d), "check")
       \/ /\ EndWait(TimedOut, "check")
          /\ UNCHANGED m_read
    /\ UNCHANGED <<m_script, m_reply, m_listening, m_task_id, m_idfile, m_resfile,
                   m_downloaded, mainrest>>

\* faulty variant: an empty result is processed like any other
m_check_audio_info_absent ==
    /\ m_pc = "check"
    /\ m_pc' = "save_result"
    /\ UNCHANGED <<m_script, m_reply, m_listening, m_task_id, m_idfile, m_resfile, m_read,
                   m_wait, m_downloaded, m_shown, m_exit, m_log, mainrest>>
\* generate_hard_trap.py 373-375: if not audio_info: ... sys.exit(1)
m_check_audio_info ==
    /\ m_pc = "check"
    /\ IF m_wait.result = <<>>
       THEN /\ m_pc' = "exit"
            /\ m_shown' = Msg("No audio data received", None)
            /\ m_exit' = ExitFailed
            /\ m_log' = Append(m_log, "exit")
       ELSE /\ m_pc' = "save_result"
            /\ UNCHANGED <<m_shown, m_exit, m_log>>
    /\ UNCHANGED <<m_script, m_reply, m_listening, m_task_id, m_idfile, m_resfile, m_read,
                   m_wait, m_downloaded, mainrest>>

\* Path(...).write_text(json.dumps(audio_list, ...))
m_save_result ==
    /\ m_pc = "save_result"
    /\ m_resfile' = File(TRUE, m_wait.result)
    /\ m_pc' = "download"
    /\ m_log' = Append(m_log, "save_result")
    /\ UNCHANGED <<m_script, m_reply, m_listening, m_task_id, m_idfile, m_read, m_wait,
                   m_downloaded, m_shown, m_exit, mainrest>>

\* client.download_track(audio_list, output_dir) and the summary: each track
\* is saved or, when it has no URL or its download fails, skipped
m_download_track ==
    /\ m_pc = "download"
    /\ \E n \in 0..Len(m_wait.result) : m_downloaded' = n
    /\ m_pc' = "done"
    /\ m_log' = Append(m_log, "download")
    /\ UNCHANGED <<m_script, m_reply, m_listening, m_task_id, m_idfile, m_resfile, m_read,
                   m_wait, m_shown, m_exit, mainrest>>

NextMain ==
    \/ m_start_webhook_server
    \/ m_generate_music
    \/ m_save_task_id
    \/ m_wait_for_completion
    \/ m_wait_for_callback
    \/ m_check_audio_info
    \/ m_save_result
    \/ m_download_track

SpecMain == InitMain /\ [][NextMain]_vars

\* the place of event e in the log (0: it has not happened)
Place(e) ==
    IF \E i \in 1..Len(m_log) : m_log[i] = e
    THEN CHOOSE i \in 1..Len(m_log) :
            m_log[i] = e /\ \A k \in 1..(i - 1) : m_log[k] # e
    ELSE 0
Happened(e) == Place(e) > 0
Before(e, f) == Happened(f) => (Happened(e) /\ Place(e) < Place(f))

\* the generation request did not give a task: it raised, its body was not
\* JSON, or the code of its body is not 200
SubmitFailed(r) ==
    r.net \in {"exception", "badjson"} \/ (r.net = "ok" /\ r.code # 200)
\* the script read the body and the body carries a msg
CarriesMsg(s, r) ==
    /\ r.net = "ok" /\ r.code # 200 /\ r.msg # Absent
    /\ s = "generate_hard_trap" => r.http < 400

TerminalResult == m_wait.pc \in {"returned", "exit_failed", "exit_timeout"}

\* C22: every terminal job result, success or failure, is in the result
\* file before the script goes on to download the tracks or to exit.
C22_ResultPersistedFirst ==
    /\ Before("save_result", "download")
    /\ (TerminalResult /\ (Happened("exit") \/ Happened("download")))
          => m_resfile.written

C25_ListeningBeforeSubmit ==
    m_script = "generate_hard_trap" =>
        /\ Before("listen", "submit")
        /\ (m_reply # NoSubmit \/ m_pc \in {"submit", "save_id", "wait", "check"})
              => m_listening
C25_Witness ==
    /\ m_script = "generate_hard_trap" /\ m_pc = "wait" /\ m_listening
    /\ m_task_id = "t1" /\ m_log = <<"listen", "submit", "save_id">>

\* C26: the task id generate_music returned is in the task-id file before
\* the first status poll or the callback wait begins, and so on every exit
\* path after it (success, remote failure, timeout).
C26_TaskIdSavedBeforeWait ==
    /\ Before("save_id", "wait")
    /\ (Happened("wait") \/ m_pc \in {"wait", "check", "save_result", "download", "done"})
          => m_task_id # None /\ m_idfile = m_task_id
C26_Witness ==
    /\ m_pc = "exit" /\ m_wait.pc = "exit_timeout" /\ m_idfile = "t2"
    /\ m_script = "generate_drill_chastushka"

(***************************************************************************)
(* main of .github/scripts/codegen_review.py.  A title is the sequence of  *)
(* its characters.                                                         *)
(***************************************************************************)
T_Fix == <<"F", "i", "x">>
T_Draft == <<"[", "D", "R", "A", "F", "T", "]", " ", "x">>
T_DraftWord == <<"D", "r", "a", "f", "t">>
T_WIP == <<"W", "I", "P">>
T_Swipe == <<"s", "w", "i", "p", "e">>
Titles == {T_Fix, T_Draft, T_DraftWord, T_WIP, T_Swipe}
Authors == {"dependabot[bot]", "alice"}
\* what os.getenv can give for a variable: unset, empty, or a value
EnvValues == {Absent, "", "v"}
Envs ==
    [org : EnvValues, token : EnvValues, number : EnvValues,
     author : Authors, title : Titles]

\* str.lower() on one character, and on a title
LowerChar(c) ==
    CASE c = "A" -> "a" [] c = "D" -> "d" [] c = "E" -> "e" [] c = "F" -> "f"
      [] c = "I" -> "i" [] c = "P" -> "p" [] c = "R" -> "r" [] c = "T" -> "t"
      [] c = "U" -> "u" [] c = "W" -> "w" [] c = "Y" -> "y"
      [] OTHER -> c
Lower(t) == [i \in 1..Len(t) |-> LowerChar(t[i])]
\* sub in t
Contains(sub, t) ==
    \E i \in 1..(Len(t) - Len(sub) + 1) : SubSeq(t, i, i + Len(sub) - 1) = sub

\* "if not org_id", "if not pr_number": None and "" are both falsy
NotSet(v) == v \in {Absent, ""}

\* faulty variant: the title is searched as it is written
should_skip_review_as_written(e) ==
    \/ e.author = "dependabot[bot]"
    \/ Contains(<<"[", "d", "r", "a", "f", "t", "]">>, e.title)
    \/ Contains(<<"w", "i", "p">>, e.title)
    \/ Contains(<<"[", "w", "i", "p", "]">>, e.title)
\* should_skip_review(pr_info): its first component
should_skip_review(e) ==
    \/ e.author = "dependabot[bot]"
    \/ Contains(<<"[", "d", "r", "a", "f", "t", "]">>, Lower(e.title))
    \/ Contains(<<"w", "i", "p">>, Lower(e.title))
    \/ Contains(<<"[", "w", "i", "p", "]">>, Lower(e.title))

InitCodegen ==
    /\ PollIdle /\ CallbackIdle /\ TwoJobsIdle /\ ReviewIdle
    /\ MainIdle /\ OtelIdle /\ ExitIdle
    /\ g_env \in Envs
    /\ g_pc = "env" /\ g_agent = FALSE /\ g_runs = 0 /\ g_exit = Running

cgrest == <<pollvars, cbvars, tjvars, rvvars, mnvars, otvars, exvars>>

\* lines 186-191: org_id, api_token; exit 1 when either is not set
g_check_config ==
    /\ g_pc = "env"
    /\ IF NotSet(g_env.org) \/ NotSet(g_env.token)
       THEN g_pc' = "exit" /\ g_exit' = 1
       ELSE g_pc' = "pr_info" /\ g_exit' = g_exit
    /\ UNCHANGED <<g_env, g_agent, g_runs, cgrest>>

\* pr_info = get_pr_info(): exit 1 when PR_NUMBER is not set
g_get_pr_info ==
    /\ g_pc = "pr_info"
    /\ IF NotSet(g_env.number)
       THEN g_pc' = "exit" /\ g_exit' = 1
       ELSE g_pc' = "skip" /\ g_exit' = g_exit
    /\ UNCHANGED <<g_env, g_agent, g_runs, cgrest>>

\* lines 199-202: should_skip, skip_reason = should_skip_review(pr_info)
g_should_skip ==
    /\ g_pc = "skip"
    /\ IF should_skip_review(g_env)
       THEN g_pc' = "exit" /\ g_exit' = 0
       ELSE g_pc' = "agent" /\ g_exit' = g_exit
    /\ UNCHANGED <<g_env, g_agent, g_runs, cgrest>>

\* lines 206-213: agent = Agent(...), exit 1 when it raises
g_init_agent ==
    /\ g_pc = "agent"
    /\ g_agent' = TRUE
    /\ \E made \in BOOLEAN :
        IF made THEN g_pc' = "review" /\ g_exit' = g_exit
        ELSE g_pc' = "exit" /\ g_exit' = 1
    /\ UNCHANGED <<g_env, g_runs, cgrest>>

\* lines 216-223: success = run_codegen_review(agent, pr_info), which calls
\* agent.run until a call completes or DefaultMaxRetries calls have failed
g_run_review ==
    /\ g_pc = "review"
    /\ \E n \in 1..DefaultMaxRetries, success \in BOOLEAN :
        /\ ~success => n = DefaultMaxRetries
        /\ g_runs' = n
        /\ g_exit' = IF success THEN 0 ELSE 1
    /\ g_pc' = "exit"
    /\ UNCHANGED <<g_env, g_agent, cgrest>>

NextCodegen ==
    \/ g_check_config
    \/ g_get_pr_info
    \/ g_should_skip
    \/ g_init_agent
    \/ g_run_review

SpecCodegen == InitCodegen /\ [][NextCodegen]_vars

\* a variable main needs is missing from the environment
MissingVariable(e) == Absent \in {e.org, e.token, e.number}
\* a PR main does not review: by dependabot, or with a [DRAFT] or WIP title
SkippedPR(e) == e.author = "dependabot[bot]" \/ e.title \in {T_Draft, T_WIP}

\* C28: agent.run is called only when CODEGEN_ORG_ID, CODEGEN_API_TOKEN and
\* PR_NUMBER are all set and should_skip_review is false; for a PR by
\* dependabot[bot] or with a [DRAFT] or WIP title (the variables being set)
\* main exits with status 0 and constructs no Agent; with a variable
\* missing it exits with status 1 and constructs none.
C28_ReviewOnlyWhenConfigured ==
    /\ g_runs > 0 =>
          /\ ~MissingVariable(g_env) /\ ~should_skip_review(g_env)
          /\ ~SkippedPR(g_env) /\ g_agent
    /\ MissingVariable(g_env) =>
          /\ ~g_agent /\ g_runs = 0
          /\ g_pc = "exit" => g_exit = 1
          /\ g_pc \in {"env", "pr_info", "exit"}
    /\ (SkippedPR(g_env) /\ ~MissingVariable(g_env)
        /\ "" \notin {g_env.org, g_env.token, g_env.number})
          => /\ ~g_agent /\ g_runs = 0
             /\ g_pc = "exit" => g_exit = 0
             /\ g_pc \in {"env", "pr_info", "skip", "exit"}
C28_Witness ==
    /\ g_pc = "exit" /\ g_exit = 0 /\ g_env.title = T_WIP /\ ~g_agent
    /\ g_env.author = "alice" /\ g_env.number = "v"

(***************************************************************************)
(* otel_shutdown_fix.py: the module body (the automatic install at import) *)
(* and the calls of install that follow it.                                *)
(***************************************************************************)
\* values of OTEL_SHUTDOWN_FIX_DISABLE, as sequences of characters; unset
\* gives the default ''
OtelEnvs ==
    { <<>>, <<"1">>, <<"0">>, <<"T", "R", "U", "E">>, <<"Y", "e", "s">>,
      <<"o", "f", "f">> }
\* ... .lower() not in ('1', 'true', 'yes')
AutoInstall(v) ==
    Lower(v) \notin {<<"1">>, <<"t", "r", "u", "e">>, <<"y", "e", "s">>}

InitOtel ==
    /\ PollIdle /\ CallbackIdle /\ TwoJobsIdle /\ ReviewIdle
    /\ MainIdle /\ CodegenIdle /\ ExitIdle
    /\ o_env \in OtelEnvs
    /\ o_pc = "import" /\ o_fix_installed = FALSE
    /\ o_atexit = 0 /\ o_logging = 0 /\ o_thread = 0 /\ o_calls = <<>>

otrest == <<pollvars, cbvars, tjvars, rvvars, mnvars, cgvars, exvars>>

\* faulty variant: install does not look at _fix_installed
install_unguarded(patch_logging, patch_threading) ==
    /\ o_atexit' = o_atexit + 1
    /\ o_logging' = o_logging + (IF patch_logging THEN 1 ELSE 0)
    /\ o_thread' = o_thread + (IF patch_threading THEN 1 ELSE 0)
    /\ o_fix_installed' = TRUE
    /\ o_calls' = Append(o_calls, <<patch_logging, patch_threading>>)
\* install(patch_logging, patch_threading), lines 174-190
install(patch_logging, patch_threading) ==
    /\ IF o_fix_installed
       THEN UNCHANGED <<o_atexit, o_logging, o_thread, o_fix_installed>>
       ELSE /\ o_atexit' = o_atexit + 1
            /\ o_logging' = o_logging + (IF patch_logging THEN 1 ELSE 0)
            /\ o_thread' = o_thread + (IF patch_threading THEN 1 ELSE 0)
            /\ o_fix_installed' = TRUE
    /\ o_calls' = Append(o_calls, <<patch_logging, patch_threading>>)

\* return _fix_installed
is_installed == o_fix_installed

\* the module body: _fix_installed = False, then the automatic install
o_import ==
    /\ o_pc = "import"
    /\ IF AutoInstall(o_env)
       THEN install(TRUE, FALSE)
       ELSE UNCHANGED <<o_atexit, o_logging, o_thread, o_fix_installed, o_calls>>
    /\ o_pc' = "ready"
    /\ UNCHANGED <<o_env, otrest>>

\* a call of install by the program that imported the module
o_install ==
    /\ o_pc = "ready"
    /\ Len(o_calls) < MaxInstalls
    /\ \E patch_logging \in BOOLEAN, patch_threading \in BOOLEAN :
        install(patch_logging, patch_threading)
    /\ UNCHANGED <<o_env, o_pc, otrest>>

NextOtel == o_import \/ o_install

SpecOtel == InitOtel /\ [][NextOtel]_vars

\* C29: after any sequence of install calls, the automatic one included,
\* _safe_shutdown_otel is registered with atexit exactly once,
\* logging.shutdown is wrapped at most once and is_installed() is true.
C29_InstallIdempotent ==
    /\ o_calls # <<>> => o_atexit = 1 /\ o_logging <= 1 /\ is_installed
    /\ o_calls = <<>> => o_atexit = 0 /\ o_logging = 0 /\ ~is_installed
C29_Witness ==
    /\ Len(o_calls) = MaxInstalls /\ AutoInstall(o_env) /\ o_atexit = 1
    /\ o_calls[MaxInstalls] = <<TRUE, TRUE>> /\ is_installed

\* C30: once install(patch_threading=True) has been called,
\* threading.Thread.start is the safe_start wrapper, also when the module
\* installed itself at import.
C30_ThreadPatchApplied ==
    (\E i \in 1..Len(o_calls) : o_calls[i][2]) => o_thread >= 1

(***************************************************************************)
(* Interpreter exit: the functions registered with atexit (the one install *)
(* registers, and those the OpenTelemetry providers register when they are *)
(* created) are run last registered first; _safe_shutdown_otel is one of   *)
(* them.                                                                   *)
(***************************************************************************)
SafeShutdown == "_safe_shutdown_otel"
\* the atexit functions of OpenTelemetry's providers
OtelHandlers == {"LoggerProvider.shutdown", "TracerProvider.shutdown",
                 "MeterProvider.shutdown"}
\* the providers _safe_shutdown_otel goes through: logger, tracer, meter
Providers == 1..3
\* what the try block of one provider does: the import fails; there is no
\* provider or it has no shutdown; shutdown returns; shutdown raises
\* RuntimeError or AttributeError, another Exception, or a BaseException
\* that is no Exception
ShutdownKinds ==
    {"ImportError", "NoShutdown", "returns", "RuntimeError", "AttributeError",
     "ValueError", "KeyboardInterrupt"}
\* provider.shutdown() was called
Calls(k) == k \notin {"ImportError", "NoShutdown"}
\* except (ImportError, AttributeError, RuntimeError): pass
CaughtInner(k) == k \in {"ImportError", "AttributeError", "RuntimeError"}
\* the exception leaves the provider's try statement
LeavesTry(k) == k \in {"ValueError", "KeyboardInterrupt"}
\* except Exception: pass
CaughtOuter(k) == k = "ValueError"
\* control reaches the try statement of provider i
Reached(i, kinds) == \A j \in 1..(i - 1) : ~LeavesTry(kinds[j])
\* _safe_shutdown_otel, lines 37-91: the providers whose shutdown it calls
\* and the exception it lets through
safe_shutdown_otel(finalizing, kinds) ==
    IF finalizing THEN [attempted |-> {}, raised |-> None]
    ELSE [attempted |-> {i \in Providers : Reached(i, kinds) /\ Calls(kinds[i])},
          raised |->
            IF \E i \in Providers :
                  Reached(i, kinds) /\ LeavesTry(kinds[i]) /\ ~CaughtOuter(kinds[i])
            THEN "KeyboardInterrupt" ELSE None]

InitExit ==
    /\ PollIdle /\ CallbackIdle /\ TwoJobsIdle /\ ReviewIdle
    /\ MainIdle /\ CodegenIdle /\ OtelIdle
    /\ x_pc = "run" /\ x_registered = <<>> /\ x_ran = <<>>
    /\ x_finalizing = FALSE /\ x_kinds = <<>> /\ x_attempted = {}
    /\ x_raised = None

exrest == <<pollvars, cbvars, tjvars, rvvars, mnvars, cgvars, otvars>>
IsRegistered(h) == \E i \in 1..Len(x_registered) : x_registered[i] = h

\* install, line 181: atexit.register(_safe_shutdown_otel), once
x_install ==
    /\ x_pc = "run"
    /\ ~IsRegistered(SafeShutdown)
    /\ x_registered' = Append(x_registered, SafeShutdown)
    /\ UNCHANGED <<x_pc, x_ran, x_finalizing, x_kinds, x_attempted, x_raised,
                   exrest>>

\* the program's OpenTelemetry initialization: a provider is created and
\* registers its shutdown with atexit
x_otel_init ==
    /\ x_pc = "run"
    /\ \E h \in OtelHandlers :
        /\ ~IsRegistered(h)
        /\ x_registered' = Append(x_registered, h)
    /\ UNCHANGED <<x_pc, x_ran, x_finalizing, x_kinds, x_attempted, x_raised,
                   exrest>>

\* the program ends and the interpreter begins to run the atexit functions
x_exit ==
    /\ x_pc = "run"
    /\ x_pc' = "exit"
    /\ UNCHANGED <<x_registered, x_ran, x_finalizing, x_kinds, x_attempted,
                   x_raised, exrest>>

\* atexit runs the functions last registered first
NextExitFunc == x_registered[Len(x_registered) - Len(x_ran)]

\* the interpreter runs the next atexit function; an exception it lets
\* through is printed and the remaining functions still run
x_run_exitfunc ==
    /\ x_pc = "exit"
    /\ Len(x_ran) < Len(x_registered)
    /\ x_ran' = Append(x_ran, NextExitFunc)
    /\ IF NextExitFunc = SafeShutdown
       THEN \E finalizing \in BOOLEAN, kinds \in [Providers -> ShutdownKinds] :
            LET r == safe_shutdown_otel(finalizing, kinds) IN
            /\ x_finalizing' = finalizing
            /\ x_kinds' = kinds
            /\ x_attempted' = r.attempted
            /\ x_raised' = r.raised
       ELSE UNCHANGED <<x_finalizing, x_kinds, x_attempted, x_raised>>
    /\ UNCHANGED <<x_pc, x_registered, exrest>>

NextExit ==
    \/ x_install
    \/ x_otel_init
    \/ x_exit
    \/ x_run_exitfunc

SpecExit == InitExit /\ [][NextExit]_vars

\* the place of function h in a sequence of functions (0: not in it)
PlaceIn(h, seq) ==
    IF \E i \in 1..Len(seq) : seq[i] = h
    THEN CHOOSE i \in 1..Len(seq) : seq[i] = h
    ELSE 0
\* install was called before the OpenTelemetry initialization
InstalledFirst ==
    /\ IsRegistered(SafeShutdown)
    /\ \E h \in OtelHandlers : IsRegistered(h)
    /\ \A h \in OtelHandlers :
          IsRegistered(h) => PlaceIn(SafeShutdown, x_registered) < PlaceIn(h, x_registered)
\* _safe_shutdown_otel has run
SafeShutdownRan == PlaceIn(SafeShutdown, x_ran) > 0

\* C31: when install was called before the OpenTelemetry initialization,
\* _safe_shutdown_otel runs at exit before every atexit function of
\* OpenTelemetry.
C31_FixRunsFirst ==
    InstalledFirst =>
        \A h \in OtelHandlers :
            PlaceIn(h, x_ran) > 0
                => /\ SafeShutdownRan
                   /\ PlaceIn(SafeShutdown, x_ran) < PlaceIn(h, x_ran)

\* C32: _safe_shutdown_otel lets no exception through to its caller,
\* whatever the providers' shutdown methods raise, and when the interpreter
\* is finalizing it calls no provider's shutdown.
C32_NothingPropagates ==
    SafeShutdownRan =>
        /\ x_raised = None
        /\ x_finalizing => x_attempted = {}

\* C33: whatever one provider's shutdown raises, _safe_shutdown_otel still
\* calls the shutdown of each of the other providers that has one.
C33_ProvidersIndependent ==
    (SafeShutdownRan /\ ~x_finalizing) =>
        \A i \in Providers : Calls(x_kinds[i]) => i \in x_attempted

====
